---- MODULE Spec2Model ----
(***************************************************************************)
(* A model of the raytracer binary (src/raytracer/src/main.rs).            *)
(*                                                                         *)
(* Three specifications share the module:                                  *)
(*   Spec       main(): the render loop, the BufWriter and the I/O results *)
(*   SpecColor  write_color on a pixel colour drawn from a bounded set     *)
(*   SpecHit    ray_color / hit_sphere on a ray and a scene drawn from     *)
(*              bounded sets                                               *)
(*                                                                         *)
(* Numbers.  The code computes in f64.  The model computes the same        *)
(* expressions exactly: coordinates and radii are small integers, a root   *)
(* of the quadratic is kept as the algebraic number (m + s*sqrt(d))/a and  *)
(* compared exactly, and a colour channel is a number of thousandths or    *)
(* one of the IEEE specials NaN, +Inf, -Inf.                               *)
(***************************************************************************)
EXTENDS Integers, Sequences, FiniteSets, TLC

VARIABLES
    \* ---- main() ----
    image_width,        \* let image_width
    image_height,       \* let image_height
    samples_per_pixel,  \* let samples_per_pixel
    pc,                 \* position of main()
    i,                  \* column of the pixel being rendered
    j,                  \* row of the pixel being rendered
    sample,             \* samples of the current pixel taken so far
    emitted,            \* lines the writer has accepted, in order
    flushed,            \* how many of them have reached the file
    created,            \* File::create succeeded
    ioFailed,           \* some I/O operation on the file has failed
    notice,             \* "Wrote image.ppm" was printed
    result,             \* what main() returned: "running", "ok", "err"
    divByZero,          \* a division by (width-1) = 0 or (height-1) = 0 happened
    hitTests,           \* calls of hit_sphere so far
    \* ---- write_color ----
    pixel_color,        \* the colour handed to write_color
    line,               \* the three integers it wrote; << >> before
    \* ---- ray_color ----
    r,                  \* the ray
    world,              \* the scene: a sequence of spheres
    world2,             \* the same spheres in another order
    shade,              \* ray_color(r, world), or "pending"
    shade2              \* ray_color(r, world2), or "pending"

mainVars  == <<image_width, image_height, samples_per_pixel, pc, i, j, sample,
               emitted, flushed, created, ioFailed, notice, result, divByZero,
               hitTests>>
colorVars == <<pixel_color, line>>
hitVars   == <<r, world, world2, shade, shade2>>
vars      == <<mainVars, colorVars, hitVars>>

(***************************************************************************)
(* Bounds of the model.                                                    *)
(***************************************************************************)
MaxWidth   == 4     \* image_width ranges over 1..MaxWidth
MaxSamples == 2     \* samples_per_pixel ranges over 1..MaxSamples
BufCap     == 2     \* lines the BufWriter holds before it must write out
MaxSpheres == 3     \* longest scene of SpecHit

(***************************************************************************)
(* An f64 colour channel is a record: a finite number of thousandths       *)
(* (fp = "num", v = the thousandths), NaN, +Inf or -Inf.                   *)
(***************************************************************************)
Num(n) == [fp |-> "num", v |-> n]
NaN    == [fp |-> "nan", v |-> 0]
PosInf == [fp |-> "+inf", v |-> 0]
NegInf == [fp |-> "-inf", v |-> 0]

(***************************************************************************)
(* main(): configuration                                                   *)
(***************************************************************************)
\* aspect_ratio as numerator/denominator; 16/9 is the program's value.
AspectRatios == { <<16, 9>>, <<1, 1>> }

\* ((image_width as f64) / aspect_ratio) as i32: truncation of w*den/num.
ImageHeight(w, ar) == (w * ar[2]) \div ar[1]

\* The scene of main(), in half units (centre and radius doubled).
Scene ==
    << [center |-> << 0,    0, -2>>, radius |-> 1],
       [center |-> << 0, -201, -2>>, radius |-> 200],
       [center |-> << 2,    0, -3>>, radius |-> 1],
       [center |-> <<-2,    0, -3>>, radius |-> 1] >>

(***************************************************************************)
(* main(): the output                                                      *)
(* A line is a record.  A pixel line carries the pixel it belongs to; the  *)
(* three integers on it are the subject of SpecColor.                      *)
(***************************************************************************)
\* Variant: the size line and the maximum written in the other order.
HeaderSwapped(n) ==
    CASE n = 0 -> [kind |-> "P3"]
      [] n = 1 -> [kind |-> "255"]
      [] n = 2 -> [kind |-> "dims", w |-> image_width, h |-> image_height]

\* writeln!(writer, "P3"), writeln!(writer, "{w} {h}"), writeln!(writer, "255")
HeaderLine(n) ==
    CASE n = 0 -> [kind |-> "P3"]
      [] n = 1 -> [kind |-> "dims", w |-> image_width, h |-> image_height]
      [] n = 2 -> [kind |-> "255"]

PixelLine(col, row) == [kind |-> "pixel", i |-> col, j |-> row]

NumHeaderLines == 3

\* What the BufWriter holds and what the file holds.
buffer == SubSeq(emitted, flushed + 1, Len(emitted))
file   == SubSeq(emitted, 1, flushed)

PixelLines(s) == Len(SelectSeq(s, LAMBDA l : l.kind = "pixel"))

(***************************************************************************)
(* main(): the loops                                                       *)
(***************************************************************************)
\* for j in (0..image_height).rev(): first item, and whether any is left
FirstRow == image_height - 1
RowLeft(row) == row >= 0

\* Variant: for i in 0..=image_width
ColumnLeftInclusive(col) == col <= image_width

\* for i in 0..image_width
ColumnLeft(col) == col < image_width

\* Where main() goes after the pixel (col,row) is written, or after the
\* header when there is no pixel yet: the next pixel or the notice.
EnterLoops ==
    IF RowLeft(FirstRow) /\ ColumnLeft(0)
    THEN /\ pc' = "sample"
         /\ i' = 0
         /\ j' = FirstRow
    ELSE /\ pc' = "notice"
         /\ UNCHANGED <<i, j>>

Advance ==
    IF ColumnLeft(i + 1)
    THEN /\ pc' = "sample"
         /\ i' = i + 1
         /\ j' = j
    ELSE IF RowLeft(j - 1) /\ ColumnLeft(0)
    THEN /\ pc' = "sample"
         /\ i' = 0
         /\ j' = j - 1
    ELSE /\ pc' = "notice"
         /\ UNCHANGED <<i, j>>

(***************************************************************************)
(* main(): the writer                                                      *)
(* BufWriter::write: a line that does not fit makes the writer write its   *)
(* buffer to the file first; that write can fail, having written any part  *)
(* of the buffer, and the failure is the result of the writeln!.           *)
(***************************************************************************)
\* writeln!(writer, ...)? succeeded: the line is in the buffer.
WriteOk(l) ==
    /\ emitted' = Append(emitted, l)
    /\ flushed' = IF Len(buffer) >= BufCap THEN Len(emitted) ELSE flushed
    /\ UNCHANGED ioFailed

\* writeln!(writer, ...)? failed: main returns the error.
WriteErr ==
    /\ Len(buffer) >= BufCap
    /\ \E n \in 0 .. (Len(buffer) - 1) : flushed' = flushed + n
    /\ ioFailed' = TRUE
    /\ result' = "err"
    /\ pc' = "drop"
    /\ UNCHANGED <<emitted, notice, i, j, sample, divByZero, hitTests>>

(***************************************************************************)
(* main(): the steps                                                       *)
(***************************************************************************)
\* let file = File::create("image.ppm")?;
CreateOk ==
    /\ pc = "create"
    /\ created' = TRUE
    /\ pc' = "header"
    /\ UNCHANGED <<image_width, image_height, samples_per_pixel, i, j, sample,
                   emitted, flushed, ioFailed, notice, result, divByZero, hitTests>>

CreateErr ==
    /\ pc = "create"
    /\ ioFailed' = TRUE
    /\ result' = "err"
    /\ pc' = "done"
    /\ UNCHANGED <<image_width, image_height, samples_per_pixel, i, j, sample,
                   emitted, flushed, created, notice, divByZero, hitTests>>

\* the three writeln! of the header
WriteHeader ==
    /\ pc = "header"
    /\ \/ /\ WriteOk(HeaderLine(Len(emitted)))
          /\ IF Len(emitted) + 1 < NumHeaderLines
             THEN pc' = "header" /\ UNCHANGED <<i, j>>
             ELSE EnterLoops
          /\ UNCHANGED <<notice, result, sample, divByZero, hitTests>>
       \/ WriteErr
    /\ UNCHANGED <<image_width, image_height, samples_per_pixel, created>>

\* one turn of `for _ in 0..samples_per_pixel`: u, v, the ray, ray_color
Sample ==
    /\ pc = "sample"
    /\ sample < samples_per_pixel
    /\ sample' = sample + 1
    /\ divByZero' = (divByZero \/ image_width - 1 = 0 \/ image_height - 1 = 0)
    /\ hitTests' = hitTests + Len(Scene)
    /\ UNCHANGED <<image_width, image_height, samples_per_pixel, pc, i, j,
                   emitted, flushed, created, ioFailed, notice, result>>

\* write_color(&mut writer, pixel_color)?
WritePixel ==
    /\ pc = "sample"
    /\ sample >= samples_per_pixel
    /\ \/ /\ WriteOk(PixelLine(i, j))
          /\ Advance
          /\ sample' = 0
          /\ UNCHANGED <<notice, result, divByZero, hitTests>>
       \/ WriteErr
    /\ UNCHANGED <<image_width, image_height, samples_per_pixel, created>>

\* println!("Wrote image.ppm"); Ok(())
Notice ==
    /\ pc = "notice"
    /\ notice' = TRUE
    /\ result' = "ok"
    /\ pc' = "drop"
    /\ UNCHANGED <<image_width, image_height, samples_per_pixel, i, j, sample,
                   emitted, flushed, created, ioFailed, divByZero, hitTests>>

\* The writer goes out of scope when main returns: BufWriter's drop writes
\* the buffer out and discards the result of that write.
DropOk ==
    /\ pc = "drop"
    /\ flushed' = Len(emitted)
    /\ pc' = "done"
    /\ UNCHANGED <<image_width, image_height, samples_per_pixel, i, j, sample,
                   emitted, created, ioFailed, notice, result, divByZero, hitTests>>

DropErr ==
    /\ pc = "drop"
    /\ Len(buffer) > 0
    /\ \E n \in 0 .. (Len(buffer) - 1) : flushed' = flushed + n
    /\ ioFailed' = TRUE
    /\ pc' = "done"
    /\ UNCHANGED <<image_width, image_height, samples_per_pixel, i, j, sample,
                   emitted, created, notice, result, divByZero, hitTests>>

MainInit ==
    /\ image_width \in 1 .. MaxWidth
    /\ \E ar \in AspectRatios : image_height = ImageHeight(image_width, ar)
    /\ samples_per_pixel \in 1 .. MaxSamples
    /\ pc = "create"
    /\ i = 0
    /\ j = 0
    /\ sample = 0
    /\ emitted = << >>
    /\ flushed = 0
    /\ created = FALSE
    /\ ioFailed = FALSE
    /\ notice = FALSE
    /\ result = "running"
    /\ divByZero = FALSE
    /\ hitTests = 0

(***************************************************************************)
(* write_color                                                             *)
(* Channels are the records Num(n), NaN, PosInf, NegInf defined above.      *)
(***************************************************************************)
\* x < y and x > y on f64; every comparison with NaN is false.
FLt(x, y) ==
    /\ x.fp # "nan"
    /\ y.fp # "nan"
    /\ \/ x.fp = "-inf" /\ y.fp # "-inf"
       \/ y.fp = "+inf" /\ x.fp # "+inf"
       \/ x.fp = "num" /\ y.fp = "num" /\ x.v < y.v
FGt(x, y) == FLt(y, x)

\* Variant: only the lower bound is applied.
ClampNoUpper(x, lo, hi) == IF FLt(x, lo) THEN lo ELSE x

\* f64::clamp(self, min, max): NaN stays NaN.
Clamp(x, lo, hi) ==
    IF FLt(x, lo) THEN lo
    ELSE IF FGt(x, hi) THEN hi
    ELSE x

\* f64::sqrt: NaN for NaN and for anything below zero; the root of a finite
\* number n/1000 is kept as its radicand (fp = "sqrt", v = n).
Sqrt(x) ==
    IF x.fp = "nan" \/ FLt(x, Num(0)) THEN NaN
    ELSE IF x.fp = "+inf" THEN PosInf
    ELSE [fp |-> "sqrt", v |-> x.v]

\* 0.999, and 255.999^2 = 65535.488001 as whole part and millionths
ClampMax  == 999
ScaleSqHi == 65535
ScaleSqLo == 488001
I32Max    == 2147483647

\* k <= 255.999 * sqrt(n/1000), i.e. k^2 * 1000 <= 65535.488001 * n
AtMostScaledRoot(k, n) ==
    k * k * 1000 <= ScaleSqHi * n + (ScaleSqLo * n) \div 1000000

\* (255.999 * g) as i32: the cast truncates, saturates, and maps NaN to 0.
Quantize(g) ==
    IF g.fp = "nan" THEN 0
    ELSE IF g.fp = "+inf" THEN I32Max
    ELSE CHOOSE k \in 0 .. 1023 :
            /\ AtMostScaledRoot(k, g.v)
            /\ ~AtMostScaledRoot(k + 1, g.v)

\* The three integers of the line write_color writes.
write_color(c) ==
    [k \in 1 .. 3 |-> Quantize(Sqrt(Clamp(c[k], Num(0), Num(ClampMax))))]

\* Channel values the pixel colour is drawn from.
Channels ==
    { NaN, PosInf, NegInf } \cup
    { Num(n) : n \in { -500, -1, 0, 1, 250, 500, 998, 999, 1000, 3000 } }

ColorInit ==
    /\ pixel_color \in [1 .. 3 -> Channels]
    /\ line = << >>

WriteColor ==
    /\ line = << >>
    /\ line' = write_color(pixel_color)
    /\ UNCHANGED pixel_color

(***************************************************************************)
(* Vec3 on integer coordinates                                             *)
(***************************************************************************)
VSub(u, v) == <<u[1] - v[1], u[2] - v[2], u[3] - v[3]>>
Dot(u, v) == u[1] * v[1] + u[2] * v[2] + u[3] * v[3]
LengthSquared(v) == Dot(v, v)

(***************************************************************************)
(* Exact arithmetic on the roots                                           *)
(* A finite f64 value t of hit_sphere is the record                        *)
(*     [fp |-> "num", m, s, d, a]   standing for   (m + s*sqrt(d)) / a     *)
(* with a > 0, d >= 0 and s in {-1, 1}; a is the same for every root of    *)
(* one ray.  fp is "nan" for NaN and "+inf" for f64::INFINITY.             *)
(***************************************************************************)
Sgn(n) == IF n > 0 THEN 1 ELSE IF n < 0 THEN -1 ELSE 0

\* The sign of A + B*sqrt(x), x >= 0.
SignLin(A, B, x) ==
    IF B = 0 \/ x = 0 THEN Sgn(A)
    ELSE IF A = 0 \/ Sgn(A) = Sgn(B) THEN Sgn(B)
    ELSE IF A * A > B * B * x THEN Sgn(A)
    ELSE IF A * A = B * B * x THEN 0
    ELSE Sgn(B)

\* The sign of K + al*sqrt(x) + be*sqrt(y), al and be in {-1, 1}.
SignTwo(K, al, x, be, y) ==
    LET u == SignLin(K, al, x)
    IN  IF y = 0 THEN u
        ELSE IF u = 0 \/ u = be THEN be
        ELSE LET q == SignLin(K * K + x - y, 2 * K * al, x)
             IN  IF q > 0 THEN u ELSE IF q = 0 THEN 0 ELSE be

TNaN == [fp |-> "nan", m |-> 0, s |-> 1, d |-> 0, a |-> 1]
TInf == [fp |-> "+inf", m |-> 0, s |-> 1, d |-> 0, a |-> 1]

\* The sign of t1 - t2 for two finite roots of one ray.
TCmp(t1, t2) == SignTwo(t1.m - t2.m, t1.s, t1.d, -t2.s, t2.d)

\* t1 < t2 on f64: false when either is NaN, true for finite t1 and +inf.
TLt(t1, t2) ==
    /\ t1.fp = "num"
    /\ \/ t2.fp = "+inf"
       \/ t2.fp = "num" /\ TCmp(t1, t2) < 0

\* The literal 0.001 as a fraction.
TMinNum == 1
TMinDen == 1000

\* The sign of t - 0.001 for a finite root.
TCmpMin(t) == SignLin(TMinDen * t.m - TMinNum * t.a, TMinDen * t.s, t.d)

\* The sign of a finite root.
TSign(t) == SignLin(t.m, t.s, t.d)

(***************************************************************************)
(* hit_sphere                                                              *)
(***************************************************************************)
\* oc, a, half_b, c, discriminant
Quadratic(center, radius, ray) ==
    LET oc == VSub(ray.origin, center)
        a == LengthSquared(ray.direction)
        half_b == Dot(oc, ray.direction)
        c == LengthSquared(oc) - radius * radius
    IN  [a |-> a, half_b |-> half_b, c |-> c,
         discriminant |-> half_b * half_b - a * c]

\* Variant: (-half_b + discriminant.sqrt()) / a
FarRoot(half_b, discriminant, a) ==
    IF a = 0 THEN TNaN
    ELSE [fp |-> "num", m |-> -half_b, s |-> 1, d |-> discriminant, a |-> a]

\* Variant: (half_b + discriminant.sqrt()) / a
NegatedRoot(half_b, discriminant, a) ==
    IF a = 0 THEN TNaN
    ELSE [fp |-> "num", m |-> half_b, s |-> 1, d |-> discriminant, a |-> a]

\* (-half_b - discriminant.sqrt()) / a; with a = 0 (a zero direction) the
\* numerator is -0.0 and the quotient NaN.
NearRoot(half_b, discriminant, a) ==
    IF a = 0 THEN TNaN
    ELSE [fp |-> "num", m |-> -half_b, s |-> -1, d |-> discriminant, a |-> a]

\* Option<f64>: some = FALSE is None.
hit_sphere(center, radius, ray) ==
    LET q == Quadratic(center, radius, ray)
    IN  IF q.discriminant < 0
        THEN [some |-> FALSE, t |-> TNaN]
        ELSE [some |-> TRUE, t |-> NearRoot(q.half_b, q.discriminant, q.a)]

(***************************************************************************)
(* ray_color                                                               *)
(***************************************************************************)
\* Variant: the test t > 0.001 left out.
AboveTMinDropped(t) == t.fp = "num"

\* t > 0.001
AboveTMin(t) == t.fp = "num" /\ TCmpMin(t) > 0

\* Variant: t <= closest_so_far
CloserOrEqual(t, closest) == t.fp = "num" /\ ~TLt(closest, t)

\* t < closest_so_far
Closer(t, closest) == TLt(t, closest)

\* Variant: closest_so_far is not updated.
TightenForgotten(t, closest) == closest

\* closest_so_far = t
Tighten(t, closest) == t

\* The for loop from sphere k on; hit_sphere_idx is a position 1..Len(w)
\* of the sequence (the code's index + 1), 0 for None.
RECURSIVE Scan(_, _, _, _, _)
Scan(ray, w, k, closest_so_far, hit_sphere_idx) ==
    IF k > Len(w) THEN [closest_so_far |-> closest_so_far,
                        hit_sphere_idx |-> hit_sphere_idx]
    ELSE LET h == hit_sphere(w[k].center, w[k].radius, ray)
         IN  IF h.some /\ AboveTMin(h.t) /\ Closer(h.t, closest_so_far)
             THEN Scan(ray, w, k + 1, Tighten(h.t, closest_so_far), k)
             ELSE Scan(ray, w, k + 1, closest_so_far, hit_sphere_idx)

\* Ray::at(t): coordinate k is origin[k] + direction[k] * t, kept as the
\* record [o, c, t].
At(ray, t) ==
    [k \in 1 .. 3 |-> [o |-> ray.origin[k], c |-> ray.direction[k], t |-> t]]

\* p - s.center
PointSub(p, center) ==
    [k \in 1 .. 3 |-> [o |-> p[k].o - center[k], c |-> p[k].c, t |-> p[k].t]]

\* Color::new(n.x + 1.0, n.y + 1.0, n.z + 1.0) * 0.5 with n = v.unit()
NormalColor(v) == [kind |-> "normal", of |-> v]

\* the background gradient, a function of the ray's direction (kept as a
\* vector of constant coordinates)
Background(ray) ==
    [kind |-> "background",
     of |-> [k \in 1 .. 3 |-> [o |-> ray.direction[k], c |-> 0, t |-> TNaN]]]

ray_color(ray, w) ==
    LET f == Scan(ray, w, 1, TInf, 0)
    IN  IF f.hit_sphere_idx # 0
        THEN LET s == w[f.hit_sphere_idx]
                 p == At(ray, f.closest_so_far)
             IN  [done |-> TRUE, hit |-> TRUE, idx |-> f.hit_sphere_idx,
                  t |-> f.closest_so_far, p |-> p,
                  color |-> NormalColor(PointSub(p, s.center))]
        ELSE [done |-> TRUE, hit |-> FALSE, idx |-> 0,
              t |-> f.closest_so_far, p |-> At(ray, TNaN),
              color |-> Background(ray)]

Pending ==
    [done |-> FALSE, hit |-> FALSE, idx |-> 0, t |-> TNaN,
     p |-> At([origin |-> <<0, 0, 0>>, direction |-> <<0, 0, 0>>], TNaN),
     color |-> Background([origin |-> <<0, 0, 0>>, direction |-> <<0, 0, 0>>])]

(***************************************************************************)
(* SpecHit: the inputs                                                     *)
(***************************************************************************)
Origins == { <<0, 0, 0>>, <<0, 0, -2>>, <<0, 0, -3>> }
Directions == { <<0, 0, -1>>, <<0, 0, 1>>, <<0, 1, -1>>, <<1, 0, -1>>, <<0, 0, 0>> }
Catalogue ==
    { [center |-> <<0, 0, -3>>, radius |-> 1],
      [center |-> <<0, 0, -4>>, radius |-> 2],
      [center |-> <<1, 0, -2>>, radius |-> 1],
      [center |-> <<0, 0, 3>>,  radius |-> 1],
      [center |-> <<0, 2, -2>>, radius |-> 1],
      [center |-> <<0, 0, -6>>, radius |-> 1] }

\* Scenes: sequences of distinct spheres of the catalogue.
Worlds ==
    UNION { { w \in [1 .. n -> Catalogue] :
                \A k, l \in 1 .. n : w[k] = w[l] => k = l } :
            n \in 0 .. MaxSpheres }

Reorderings(w) ==
    { [k \in 1 .. Len(w) |-> w[f[k]]] : f \in Permutations(1 .. Len(w)) }

HitInit ==
    /\ r \in [origin : Origins, direction : Directions]
    /\ world \in Worlds
    /\ world2 = world
    /\ shade = Pending
    /\ shade2 = Pending

\* ray_color(&r, &world)
Shade ==
    /\ ~shade.done
    /\ shade' = ray_color(r, world)
    /\ UNCHANGED <<r, world, world2, shade2>>

\* ray_color on the same ray and the same spheres in another order
ShadeReordered ==
    /\ shade.done
    /\ ~shade2.done
    /\ \E w \in Reorderings(world) :
          /\ world2' = w
          /\ shade2' = ray_color(r, w)
    /\ UNCHANGED <<r, world, shade>>

(***************************************************************************)
(* The specifications.  Each runs one part of the program and holds the    *)
(* variables of the other parts at rest.                                   *)
(***************************************************************************)
IdleMain ==
    /\ image_width = 1
    /\ image_height = 0
    /\ samples_per_pixel = 1
    /\ pc = "idle"
    /\ i = 0
    /\ j = 0
    /\ sample = 0
    /\ emitted = << >>
    /\ flushed = 0
    /\ created = FALSE
    /\ ioFailed = FALSE
    /\ notice = FALSE
    /\ result = "running"
    /\ divByZero = FALSE
    /\ hitTests = 0

IdleColor == pixel_color = <<Num(0), Num(0), Num(0)>> /\ line = << >>

IdleHit ==
    /\ r = [origin |-> <<0, 0, 0>>, direction |-> <<0, 0, 0>>]
    /\ world = << >>
    /\ world2 = << >>
    /\ shade = Pending
    /\ shade2 = Pending

Init == MainInit /\ IdleColor /\ IdleHit

Next ==
    \/ CreateOk /\ UNCHANGED <<colorVars, hitVars>>
    \/ CreateErr /\ UNCHANGED <<colorVars, hitVars>>
    \/ WriteHeader /\ UNCHANGED <<colorVars, hitVars>>
    \/ Sample /\ UNCHANGED <<colorVars, hitVars>>
    \/ WritePixel /\ UNCHANGED <<colorVars, hitVars>>
    \/ Notice /\ UNCHANGED <<colorVars, hitVars>>
    \/ DropOk /\ UNCHANGED <<colorVars, hitVars>>
    \/ DropErr /\ UNCHANGED <<colorVars, hitVars>>

Spec == Init /\ [][Next]_vars

\* main() is one sequential thread with nothing to wait for: whenever it
\* has a next step, it takes one.
SpecFair == Spec /\ WF_vars(Next)

InitColor == IdleMain /\ ColorInit /\ IdleHit
NextColor == WriteColor /\ UNCHANGED <<mainVars, hitVars>>
SpecColor == InitColor /\ [][NextColor]_vars

InitHit == IdleMain /\ IdleColor /\ HitInit
NextHit ==
    \/ Shade /\ UNCHANGED <<mainVars, colorVars>>
    \/ ShadeReordered /\ UNCHANGED <<mainVars, colorVars>>
SpecHit == InitHit /\ [][NextHit]_vars

(***************************************************************************)
(* Properties of main()                                                    *)
(***************************************************************************)
Completed == notice

\* C1: for width >= 1 and height >= 1, the run never has emitted more than
\* width*height pixel lines, and a run that completed has emitted exactly
\* width*height of them.
C1_PixelCount ==
    (image_width >= 1 /\ image_height >= 1) =>
        /\ PixelLines(emitted) <= image_width * image_height
        /\ Completed => PixelLines(emitted) = image_width * image_height

C1_Witness ==
    /\ Completed
    /\ image_width >= 2
    /\ image_height >= 2
    /\ PixelLines(emitted) = image_width * image_height

\* The line the claim puts at position k (from 1) of the output.
ExpectedLine(k) ==
    IF k = 1 THEN [kind |-> "P3"]
    ELSE IF k = 2 THEN [kind |-> "dims", w |-> image_width, h |-> image_height]
    ELSE IF k = 3 THEN [kind |-> "255"]
    ELSE [kind |-> "pixel",
          i |-> (k - 4) % image_width,
          j |-> image_height - 1 - ((k - 4) \div image_width)]

\* C2: the output is the three header lines "P3", "<w> <h>", "255" in that
\* order, once, then the pixel lines, the k-th of them (from 0) being pixel
\* i = k mod width, j = height-1 - (k div width).
C2_OutputOrder ==
    \A k \in 1 .. Len(emitted) : emitted[k] = ExpectedLine(k)

C2_Witness ==
    /\ image_width >= 3
    /\ image_height >= 2
    /\ Len(emitted) = NumHeaderLines + image_width * image_height

\* C7: once an I/O operation on the file has failed (create, a write of the
\* header or of a pixel line, or a later write-out of buffered data), the
\* notice is not printed and main does not return success.
C7_IoFailureIsFatal ==
    ioFailed => (~notice /\ result # "ok")

\* C8: with width < 2 or height < 2 nothing is written and no division by
\* width-1 = 0 or height-1 = 0 is performed.
C8_DegenerateRejected ==
    (image_width < 2 \/ image_height < 2) => (emitted = << >> /\ ~divByZero)

\* What a render with no I/O failure performs: one call of hit_sphere per
\* sphere of the scene, per sample, per pixel.
TestsOfRender == image_width * image_height * samples_per_pixel * Len(Scene)

\* C11 as stated: the calls of hit_sphere never number more than
\* width*height*N.
C11_TestsWithinPixelSamples ==
    hitTests <= image_width * image_height * samples_per_pixel

\* C11 amended: main() terminates, the calls of hit_sphere never number
\* more than width*height*N times the number of spheres of the scene, and a
\* render that completed has made exactly that many.
C11_TerminatesWithinSceneTests ==
    /\ <>(pc = "done")
    /\ [](hitTests <= TestsOfRender)
    /\ []((pc = "done" /\ Completed) => hitTests = TestsOfRender)

C11_Witness ==
    /\ pc = "done"
    /\ Completed
    /\ image_width >= 2
    /\ image_height >= 2
    /\ samples_per_pixel >= 2
    /\ hitTests = TestsOfRender
    /\ hitTests > image_width * image_height * samples_per_pixel

\* The whole image: the header and width*height pixel lines.
ImageLines == NumHeaderLines + image_width * image_height

\* C12: whenever the notice has been printed, the file holds the header
\* and all width*height pixel lines.
C12_NoticeAfterFileComplete ==
    notice => (flushed = Len(emitted) /\ Len(file) = ImageLines)

(***************************************************************************)
(* Properties of write_color                                               *)
(***************************************************************************)
\* C3: every integer write_color writes is in 0..255, whatever the pixel
\* colour: below 0, above 1, NaN or infinite.
C3_ChannelRange ==
    line # << >> => \A k \in 1 .. 3 : line[k] \in 0 .. 255

C3_Witness ==
    /\ pixel_color = <<NaN, PosInf, Num(3000)>>
    /\ line = <<0, 255, 255>>

(***************************************************************************)
(* Properties of hit_sphere and ray_color                                  *)
(***************************************************************************)
\* The quadratic of sphere k of w, its near root spelt out from the four
\* numbers, and whether that root lies in the window (0.001, +infinity).
QuadOf(w, k) == Quadratic(w[k].center, w[k].radius, r)
HasRoots(w, k) == QuadOf(w, k).discriminant >= 0
NearRootOf(w, k) ==
    [fp |-> IF QuadOf(w, k).a = 0 THEN "nan" ELSE "num",
     m |-> -QuadOf(w, k).half_b, s |-> -1,
     d |-> QuadOf(w, k).discriminant, a |-> QuadOf(w, k).a]
Accepted(w, k) ==
    /\ HasRoots(w, k)
    /\ NearRootOf(w, k).fp = "num"
    /\ TCmpMin(NearRootOf(w, k)) > 0

\* Sphere k has an accepted root and no sphere has a smaller accepted one.
Smallest(w, k) ==
    /\ Accepted(w, k)
    /\ \A l \in 1 .. Len(w) :
          Accepted(w, l) => TCmp(NearRootOf(w, k), NearRootOf(w, l)) <= 0

TEq(t1, t2) == t1.fp = "num" /\ t2.fp = "num" /\ TCmp(t1, t2) = 0

\* C4: ray_color selects the sphere whose near root is the smallest of the
\* roots in (0.001, +infinity); of several spheres with that same smallest
\* root it selects the first; with no accepted root it reports a miss and
\* returns the background.
C4_NearestFirst ==
    shade.done =>
        IF \E k \in 1 .. Len(world) : Accepted(world, k)
        THEN /\ shade.hit
             /\ shade.idx \in 1 .. Len(world)
             /\ Smallest(world, shade.idx)
             /\ \A l \in 1 .. (shade.idx - 1) : ~Smallest(world, l)
             /\ TEq(shade.t, NearRootOf(world, shade.idx))
        ELSE /\ ~shade.hit
             /\ shade.color = Background(r)

\* Two different spheres share the smallest accepted root, the second in
\* the scene was not selected, and a third sphere has a larger accepted root.
C4_Witness ==
    /\ shade.done
    /\ shade.hit
    /\ \E k, l \in 1 .. Len(world) :
          /\ k < l
          /\ shade.idx = k
          /\ Smallest(world, k)
          /\ Smallest(world, l)
    /\ \E n \in 1 .. Len(world) : Accepted(world, n) /\ ~Smallest(world, n)

OriginOutsideAll ==
    \A k \in 1 .. Len(world) : QuadOf(world, k).c > 0
NonZeroDirection == r.direction # <<0, 0, 0>>

\* C5 as stated: for an origin outside every sphere and a non-zero
\* direction, ray_color reports a miss iff every sphere's discriminant is
\* negative.
C5_MissIffNoRoots ==
    (shade.done /\ OriginOutsideAll /\ NonZeroDirection) =>
        (~shade.hit <=> \A k \in 1 .. Len(world) : ~HasRoots(world, k))

\* C5 amended: for an origin outside every sphere and a non-zero direction,
\* ray_color reports a miss iff every sphere has a negative discriminant or
\* a near root outside the window (0.001, +infinity).
C5_MissIffNoAcceptedRoot ==
    (shade.done /\ OriginOutsideAll /\ NonZeroDirection) =>
        (~shade.hit <=> \A k \in 1 .. Len(world) : ~Accepted(world, k))

\* A miss in a scene of two or more spheres, one with a non-negative
\* discriminant (its roots lie behind the origin) and one with a negative.
C5_Witness ==
    /\ shade.done
    /\ OriginOutsideAll
    /\ NonZeroDirection
    /\ ~shade.hit
    /\ Len(world) >= 2
    /\ \E k \in 1 .. Len(world) : HasRoots(world, k)
    /\ \E k \in 1 .. Len(world) : ~HasRoots(world, k)

\* Equality of two coordinates o + c*t of points on one ray.
CoordEq(x, y) ==
    /\ x.c = y.c
    /\ IF x.c = 0 THEN x.o = y.o
       ELSE /\ x.t.fp = "num"
            /\ y.t.fp = "num"
            /\ SignTwo(x.c * (x.t.m - y.t.m) - x.t.a * (y.o - x.o),
                       Sgn(x.c) * x.t.s, x.c * x.c * x.t.d,
                       -Sgn(x.c) * y.t.s, x.c * x.c * y.t.d) = 0
PointEq(p, q) == \A k \in 1 .. 3 : CoordEq(p[k], q[k])
ColorEq(c1, c2) == c1.kind = c2.kind /\ PointEq(c1.of, c2.of)

TieAtSmallest(w) ==
    \E k, l \in 1 .. Len(w) : k # l /\ Smallest(w, k) /\ Smallest(w, l)

\* C6: for the same ray and the same spheres in any order, ray_color finds
\* the same accepted t and the same hit point (or a miss both times), and,
\* unless two spheres share the smallest accepted t, the same sphere, hence
\* the same normal and colour.
C6_OrderIndependent ==
    (shade.done /\ shade2.done) =>
        /\ shade.hit = shade2.hit
        /\ shade.hit =>
              /\ TEq(shade.t, shade2.t)
              /\ PointEq(shade.p, shade2.p)
              /\ ~TieAtSmallest(world) =>
                    /\ world[shade.idx] = world2[shade2.idx]
                    /\ ColorEq(shade.color, shade2.color)
        /\ ~shade.hit => ColorEq(shade.color, shade2.color)

\* Three spheres, two of them with accepted roots and no tie; the nearest
\* is last in one order and first in the other.
C6_Witness ==
    /\ shade.done
    /\ shade2.done
    /\ shade.hit
    /\ ~TieAtSmallest(world)
    /\ Len(world) = 3
    /\ \E k \in 1 .. 2 : Accepted(world, k) /\ ~Smallest(world, k)
    /\ shade.idx = 3
    /\ shade2.idx = 1
    /\ world[3] = world2[1]

OnSurface(w, k) == QuadOf(w, k).c = 0
PointsOutward(w, k) == QuadOf(w, k).half_b > 0

\* C9: a sphere on whose surface the origin lies, with the direction
\* pointing outward, gives a candidate t that is not greater than 0.001, and
\* is not the sphere ray_color selects.
C9_SurfaceOutwardNoHit ==
    shade.done =>
        \A k \in 1 .. Len(world) :
            (OnSurface(world, k) /\ PointsOutward(world, k)) =>
                LET h == hit_sphere(world[k].center, world[k].radius, r)
                IN  /\ h.some => ~AboveTMin(h.t)
                    /\ ~(shade.hit /\ shade.idx = k)

\* The origin is on one sphere, pointing away from it, and another sphere
\* is hit.
C9_Witness ==
    /\ shade.done
    /\ shade.hit
    /\ \E k \in 1 .. Len(world) :
          /\ OnSurface(world, k)
          /\ PointsOutward(world, k)
          /\ hit_sphere(world[k].center, world[k].radius, r).some

OriginInside(w, k) == QuadOf(w, k).c < 0

\* C10: a sphere that strictly contains the origin, with a non-zero
\* direction, is never the sphere ray_color selects: hit_sphere returns a
\* root, that root is negative, and t > 0.001 rejects it.
C10_InsideNoHit ==
    (shade.done /\ NonZeroDirection) =>
        \A k \in 1 .. Len(world) :
            OriginInside(world, k) =>
                LET h == hit_sphere(world[k].center, world[k].radius, r)
                IN  /\ h.some
                    /\ h.t.fp = "num"
                    /\ TSign(h.t) < 0
                    /\ ~AboveTMin(h.t)
                    /\ ~(shade.hit /\ shade.idx = k)

\* The origin is inside the only sphere of the scene, and the result is a
\* miss.
C10_Witness ==
    /\ shade.done
    /\ NonZeroDirection
    /\ Len(world) = 1
    /\ OriginInside(world, 1)
    /\ ~shade.hit

====
